---- MODULE Spec2Model ----
(***************************************************************************)
(* Model of excimer_timer.c: the timer registry and the cross-thread       *)
(* event-delivery protocol of the Excimer sampling profiler.               *)
(*                                                                         *)
(* Processes: the owning (application) threads, which call                 *)
(* excimer_timer_init/start/destroy, run excimer_timer_interrupt at the    *)
(* engine's checkpoints and excimer_timer_thread_shutdown at their end;    *)
(* and the notification-thread invocations of excimer_timer_handle, one    *)
(* per firing of an OS timer.  Each action is one atomic step of one       *)
(* process; a step ends at every lock acquisition and at every access to   *)
(* a timer field that another process may access without a lock.           *)
(***************************************************************************)
EXTENDS Integers, Sequences, FiniteSets, TLC

\* ------------------------------------------------------------------ bounds
NumThreads == 2      \* owning threads
NumSlots == 2        \* excimer_timer objects (memory locations) available
NumHandlers == 1     \* notification-handler invocations in flight at once
IdBits == 2          \* width of the id counter: ids are taken modulo 2^IdBits
MaxOverrun == 1      \* largest overrun count the OS reports for one firing
MaxCount == 2        \* cap on the events fired for one timer between drains

Threads == 1..NumThreads
Slots == 1..NumSlots
Handlers == 1..NumHandlers
IdModulus == 2 ^ IdBits
Ids == 0..(IdModulus - 1)

NULL == 0
FREE == 0
\* Lock holders: thread t is process t, handler invocation h is process
\* NumThreads + h.
ThreadProc(t) == t
HandlerProc(h) == NumThreads + h

\* struct timespec values offered to excimer_timer_start
TimeSpecs == {[tv_sec |-> 0, tv_nsec |-> 0], [tv_sec |-> 0, tv_nsec |-> 1]}

\* Mutant: no time value counts as zero.
IsZeroNever(ts) == FALSE

excimer_timer_is_zero(ts) == ts.tv_sec = 0 /\ ts.tv_nsec = 0

\* ------------------------------------------------------------- hash tables
\* A HashTable with integer keys is a sequence of [h, val] buckets in
\* insertion order (the order ZEND_HASH_FOREACH visits them).
HashKeys(ht) == {ht[i].h : i \in 1..Len(ht)}

zend_hash_index_find(ht, key) ==
    IF key \in HashKeys(ht)
    THEN (CHOOSE i \in 1..Len(ht) : ht[i].h = key)
    ELSE 0

HashVal(ht, key) == ht[zend_hash_index_find(ht, key)].val

\* zend_hash_index_add fails (and changes nothing) when the key exists.
zend_hash_index_add(ht, key, v) ==
    IF key \in HashKeys(ht) THEN ht ELSE Append(ht, [h |-> key, val |-> v])

zend_hash_index_del(ht, key) ==
    SelectSeq(ht, LAMBDA b : b.h # key)

\* Z_LVAL_P(zp) += n on the bucket of an existing key.
HashIncr(ht, key, n) ==
    [i \in 1..Len(ht) |->
        IF ht[i].h = key THEN [ht[i] EXCEPT !.val = @ + n] ELSE ht[i]]

\* ------------------------------------------------------------------- state
VARIABLES
    next_id,        \* excimer_timer_globals.next_id
    timers_by_id,   \* excimer_timer_globals.timers_by_id: id -> slot
    gmutex,         \* excimer_timer_globals.mutex: FREE or the holder
    tls_timers,     \* excimer_timer_tls.timers_by_id of each thread
    event_counts,   \* excimer_timer_tls.event_counts of each thread
    tmutex,         \* excimer_timer_tls.mutex of each thread
    vm_interrupt,   \* EG(vm_interrupt) of each thread
    timer,          \* the excimer_timer object in each slot
    os_timer,       \* the OS timer behind each slot's os_timer handle
    frame,          \* what each thread is running outside an API call
    pc,             \* each thread's position inside an API call
    cur,            \* the timer (slot) of the API call in progress
    warning,        \* the diagnostic raised by each thread's latest API call
    old_counts,     \* the swapped-out accumulator being drained
    todo,           \* thread shutdown: timers still to visit
    hpc,            \* each handler invocation's position
    hloc,           \* each handler invocation's locals
    fired,          \* history: events fired per slot since the owner's swap
    assigned,       \* history: ids handed out by init so far
    wrapped,        \* history: an init has taken the counter value zero
    life            \* history: each slot's timer as its caller sees it

vars == <<next_id, timers_by_id, gmutex, tls_timers, event_counts, tmutex,
          vm_interrupt, timer, os_timer, frame, pc, cur, warning, old_counts,
          todo, hpc, hloc, fired, assigned, wrapped, life>>

\* memset(timer, 0, sizeof(excimer_timer))
ZeroTimer ==
    [id |-> 0, is_valid |-> FALSE, is_running |-> FALSE,
     event_counts_ptr |-> NULL, thread_mutex_ptr |-> NULL,
     vm_interrupt_ptr |-> NULL]

ZeroTime == [tv_sec |-> 0, tv_nsec |-> 0]

\* An OS timer that does not exist (never created, or deleted).
NoOsTimer ==
    [exists |-> FALSE, armed |-> FALSE, token |-> 0,
     period |-> ZeroTime, value |-> ZeroTime]

NoLocals == [id |-> 0, overrun |-> 0, timer |-> 0, src |-> 0]

\* State after excimer_timer_module_init and, on every thread,
\* excimer_timer_thread_init.
Init ==
    /\ next_id = 1
    /\ timers_by_id = [i \in Ids |-> 0]
    /\ gmutex = FREE
    /\ tls_timers = [t \in Threads |-> <<>>]
    /\ event_counts = [t \in Threads |-> <<>>]
    /\ tmutex = [t \in Threads |-> FREE]
    /\ vm_interrupt = [t \in Threads |-> FALSE]
    /\ timer = [s \in Slots |-> ZeroTimer]
    /\ os_timer = [s \in Slots |-> NoOsTimer]
    /\ frame = [t \in Threads |-> "run"]
    /\ pc = [t \in Threads |-> "idle"]
    /\ cur = [t \in Threads |-> 0]
    /\ warning = [t \in Threads |-> "none"]
    /\ old_counts = [t \in Threads |-> <<>>]
    /\ todo = [t \in Threads |-> <<>>]
    /\ hpc = [h \in Handlers |-> "idle"]
    /\ hloc = [h \in Handlers |-> NoLocals]
    /\ fired = [s \in Slots |-> 0]
    /\ assigned = {}
    /\ wrapped = FALSE
    /\ life = [s \in Slots |-> "none"]

\* A thread may enter an API call from ordinary execution or from inside a
\* timer callback; the interrupt handler itself runs only at a checkpoint
\* of ordinary execution.
CanCall(t) == pc[t] = "idle" /\ frame[t] \in {"run", "cb"}

\* Slot s is in nobody's hands: no call is working on it, no table or
\* handler refers to it, and it holds no live timer.  Only such memory is
\* handed to excimer_timer_init.
SlotUnused(s) ==
    /\ ~timer[s].is_valid
    /\ ~os_timer[s].exists
    /\ \A t \in Threads : cur[t] # s
    /\ \A i \in Ids : timers_by_id[i] # s
    /\ \A t \in Threads : \A i \in 1..Len(tls_timers[t]) : tls_timers[t][i].val # s
    /\ \A t \in Threads : \A i \in 1..Len(todo[t]) : todo[t][i].val # s
    /\ \A h \in Handlers : hloc[h].timer # s

\* ------------------------------------------------------- excimer_timer_init
\* Mutant: the counter is not advanced.
NextIdSame(n) == n

\* timer->id = excimer_timer_globals.next_id++ : the counter after the take.
NextIdAfter(n) == (n + 1) % IdModulus

\* Mutant: the overflow check is missing.
IdOverflowedNever(id) == FALSE

\* Line 121: the id taken shows that the counter has overflowed.
IdOverflowed(id) == id = 0

\* Lines 111-117: clear the object and record the calling thread's
\* back-references; the thread then waits for the global mutex.
InitCall(t, s) ==
    /\ CanCall(t)
    /\ SlotUnused(s)
    /\ timer' = [timer EXCEPT ![s] =
                    [ZeroTimer EXCEPT !.vm_interrupt_ptr = t,
                                      !.event_counts_ptr = t,
                                      !.thread_mutex_ptr = t]]
    /\ pc' = [pc EXCEPT ![t] = "i_lock"]
    /\ cur' = [cur EXCEPT ![t] = s]
    /\ warning' = [warning EXCEPT ![t] = "none"]
    /\ life' = [life EXCEPT ![s] = "none"]
    /\ fired' = [fired EXCEPT ![s] = 0]
    /\ hloc' = [h \in Handlers |->
                  IF hloc[h].src = s THEN [hloc[h] EXCEPT !.src = 0] ELSE hloc[h]]
    /\ UNCHANGED <<next_id, timers_by_id, gmutex, tls_timers, event_counts,
                   tmutex, vm_interrupt, os_timer, frame, old_counts, todo,
                   hpc, assigned, wrapped>>

\* Line 119
InitLock(t) ==
    /\ pc[t] = "i_lock"
    /\ gmutex = FREE
    /\ gmutex' = ThreadProc(t)
    /\ pc' = [pc EXCEPT ![t] = "i_reg"]
    /\ UNCHANGED <<next_id, timers_by_id, tls_timers, event_counts, tmutex,
                   vm_interrupt, timer, os_timer, frame, cur, warning,
                   old_counts, todo, hpc, hloc, fired, assigned, wrapped, life>>

\* Lines 120-128: take an id under the global mutex; zero means the counter
\* has overflowed, otherwise register the timer.  zend_hash_index_add does
\* not replace an existing entry.
InitReg(t) ==
    /\ pc[t] = "i_reg"
    /\ LET s == cur[t]
           id == next_id
       IN /\ next_id' = NextIdAfter(next_id)
          /\ wrapped' = (wrapped \/ IdOverflowed(id))
          /\ timer' = [timer EXCEPT ![s].id = id]
          /\ gmutex' = FREE
          /\ IF IdOverflowed(id)
             THEN /\ warning' = [warning EXCEPT ![t] = "overflow"]
                  /\ pc' = [pc EXCEPT ![t] = "idle"]
                  /\ cur' = [cur EXCEPT ![t] = 0]
                  /\ UNCHANGED <<timers_by_id, assigned, life>>
             ELSE /\ timers_by_id' =
                        IF timers_by_id[id] = 0
                        THEN [timers_by_id EXCEPT ![id] = s]
                        ELSE timers_by_id
                  /\ assigned' = assigned \cup {id}
                  /\ life' = [life EXCEPT ![s] = "registered"]
                  /\ pc' = [pc EXCEPT ![t] = "i_tls"]
                  /\ UNCHANGED <<warning, cur>>
    /\ UNCHANGED <<tls_timers, event_counts, tmutex, vm_interrupt, os_timer,
                   frame, old_counts, todo, hpc, hloc, fired>>

\* Lines 130-138: enter the thread-local table, then create the OS timer
\* with the id as its notification token.  Creation may fail, and the
\* function then returns FAILURE with the timer left as it is.
InitTls(t) ==
    /\ pc[t] = "i_tls"
    /\ LET s == cur[t]
       IN /\ tls_timers' = [tls_timers EXCEPT ![t] =
                                zend_hash_index_add(@, timer[s].id, s)]
          /\ \E created \in BOOLEAN :
                IF created
                THEN /\ os_timer' = [os_timer EXCEPT ![s] =
                                        [NoOsTimer EXCEPT !.exists = TRUE,
                                                          !.token = timer[s].id]]
                     /\ timer' = [timer EXCEPT ![s].is_valid = TRUE,
                                               ![s].is_running = FALSE]
                ELSE UNCHANGED <<os_timer, timer>>
    /\ pc' = [pc EXCEPT ![t] = "idle"]
    /\ cur' = [cur EXCEPT ![t] = 0]
    /\ UNCHANGED <<next_id, timers_by_id, gmutex, event_counts, tmutex,
                   vm_interrupt, frame, warning, old_counts, todo, hpc, hloc,
                   fired, assigned, wrapped, life>>

\* ------------------------------------------------------ excimer_timer_start
\* Mutant: the initial value is always replaced by the period.
EffectiveInitialAlwaysPeriod(period, initial) == period

\* Lines 151-153: a zero initial value is replaced by the period.
EffectiveInitial(period, initial) ==
    IF excimer_timer_is_zero(initial) THEN period ELSE initial

\* Lines 144-161, on the thread that created the timer.  When the OS arms
\* the timer the thread has still to set is_running (line 162).
StartCall(t, s, period, initial) ==
    /\ CanCall(t)
    /\ timer[s].thread_mutex_ptr = t
    /\ LET value == EffectiveInitial(period, initial)
       IN IF ~timer[s].is_valid
          THEN /\ warning' = [warning EXCEPT ![t] = "uninitialised"]
               /\ UNCHANGED <<os_timer, pc, cur>>
          ELSE IF excimer_timer_is_zero(value)
          THEN /\ warning' = [warning EXCEPT ![t] = "zero_duration"]
               /\ UNCHANGED <<os_timer, pc, cur>>
          ELSE /\ warning' = [warning EXCEPT ![t] = "none"]
               /\ \E armed \in BOOLEAN :
                    IF armed
                    THEN /\ os_timer' = [os_timer EXCEPT ![s].armed = TRUE,
                                                         ![s].period = period,
                                                         ![s].value = value]
                         /\ pc' = [pc EXCEPT ![t] = "s_run"]
                         /\ cur' = [cur EXCEPT ![t] = s]
                    ELSE UNCHANGED <<os_timer, pc, cur>>
    /\ UNCHANGED <<next_id, timers_by_id, gmutex, tls_timers, event_counts,
                   tmutex, vm_interrupt, timer, frame, old_counts, todo,
                   hpc, hloc, fired, assigned, wrapped, life>>

\* Line 162
StartRun(t) ==
    /\ pc[t] = "s_run"
    /\ timer' = [timer EXCEPT ![cur[t]].is_running = TRUE]
    /\ pc' = [pc EXCEPT ![t] = "idle"]
    /\ cur' = [cur EXCEPT ![t] = 0]
    /\ UNCHANGED <<next_id, timers_by_id, gmutex, tls_timers, event_counts,
                   tmutex, vm_interrupt, os_timer, frame, warning, old_counts,
                   todo, hpc, hloc, fired, assigned, wrapped, life>>

\* ---------------------------------------------------- excimer_timer_destroy
\* Mutant: the ownership check is missing.
IsOwnerAnyThread(t, s) == TRUE

\* Line 173: the timer belongs to the calling thread.
IsOwner(t, s) == timer[s].event_counts_ptr = t

\* Any thread may call destroy on any timer object that init has filled in.
DestroyCall(t, s) ==
    /\ CanCall(t)
    /\ timer[s].thread_mutex_ptr # NULL
    /\ pc' = [pc EXCEPT ![t] = "d_check"]
    /\ cur' = [cur EXCEPT ![t] = s]
    /\ warning' = [warning EXCEPT ![t] = "none"]
    /\ UNCHANGED <<next_id, timers_by_id, gmutex, tls_timers, event_counts,
                   tmutex, vm_interrupt, timer, os_timer, frame, old_counts,
                   todo, hpc, hloc, fired, assigned, wrapped, life>>

\* Lines 168-184: the two early returns, then the disarming.  A destroy
\* call that the timer's creator has completed ends the timer's life as
\* the caller sees it, whatever the call did.
DestroyCheck(t) ==
    /\ pc[t] = "d_check"
    /\ LET s == cur[t]
       IN IF ~timer[s].is_valid
          THEN /\ pc' = [pc EXCEPT ![t] = "idle"]
               /\ cur' = [cur EXCEPT ![t] = 0]
               /\ life' = IF timer[s].thread_mutex_ptr = t /\ life[s] = "registered"
                          THEN [life EXCEPT ![s] = "destroyed"] ELSE life
               /\ UNCHANGED <<timer, os_timer, warning>>
          ELSE IF ~IsOwner(t, s)
          THEN /\ warning' = [warning EXCEPT ![t] = "other_thread"]
               /\ pc' = [pc EXCEPT ![t] = "idle"]
               /\ cur' = [cur EXCEPT ![t] = 0]
               /\ UNCHANGED <<timer, os_timer, life>>
          ELSE /\ IF timer[s].is_running
                  THEN /\ timer' = [timer EXCEPT ![s].is_running = FALSE]
                       /\ os_timer' = [os_timer EXCEPT ![s].armed = FALSE,
                                                       ![s].period = ZeroTime,
                                                       ![s].value = ZeroTime]
                  ELSE UNCHANGED <<timer, os_timer>>
               /\ pc' = [pc EXCEPT ![t] = "d_glock"]
               /\ UNCHANGED <<warning, cur, life>>
    /\ UNCHANGED <<next_id, timers_by_id, gmutex, tls_timers, event_counts,
                   tmutex, vm_interrupt, frame, old_counts, todo, hpc, hloc,
                   fired, assigned, wrapped>>

\* Mutant: destroy takes the thread-local mutex before the global one.
DestroyLocksThreadFirst(t) ==
    /\ pc[t] = "d_glock"
    /\ IF tmutex[t] # ThreadProc(t)
       THEN /\ tmutex[t] = FREE
            /\ tmutex' = [tmutex EXCEPT ![t] = ThreadProc(t)]
            /\ UNCHANGED <<gmutex, pc>>
       ELSE /\ gmutex = FREE
            /\ gmutex' = ThreadProc(t)
            /\ pc' = [pc EXCEPT ![t] = "d_dereg"]
            /\ UNCHANGED tmutex
    /\ UNCHANGED <<next_id, timers_by_id, tls_timers, event_counts,
                   vm_interrupt, timer, os_timer, frame, cur, warning,
                   old_counts, todo, hpc, hloc, fired, assigned, wrapped, life>>

\* Mutant: destroy goes on to deregister without waiting for the global mutex.
DestroyGlockNoWait(t) ==
    /\ pc[t] = "d_glock"
    /\ pc' = [pc EXCEPT ![t] = "d_dereg"]
    /\ UNCHANGED <<next_id, timers_by_id, gmutex, tls_timers, event_counts,
                   tmutex, vm_interrupt, timer, os_timer, frame, cur, warning,
                   old_counts, todo, hpc, hloc, fired, assigned, wrapped, life>>

\* Line 187
DestroyGlock(t) ==
    /\ pc[t] = "d_glock"
    /\ gmutex = FREE
    /\ gmutex' = ThreadProc(t)
    /\ pc' = [pc EXCEPT ![t] = "d_dereg"]
    /\ UNCHANGED <<next_id, timers_by_id, tls_timers, event_counts, tmutex,
                   vm_interrupt, timer, os_timer, frame, cur, warning,
                   old_counts, todo, hpc, hloc, fired, assigned, wrapped, life>>

\* Mutant: the timer's fields are left as they are (lines 192-193 missing).
DestroyDeregKeepsFields(t) ==
    /\ pc[t] = "d_dereg"
    /\ timers_by_id' = [timers_by_id EXCEPT ![timer[cur[t]].id] = 0]
    /\ gmutex' = FREE
    /\ pc' = [pc EXCEPT ![t] = "d_tlock"]
    /\ UNCHANGED <<next_id, tls_timers, event_counts, tmutex, vm_interrupt,
                   timer, os_timer, frame, cur, warning, old_counts, todo, hpc,
                   hloc, fired, assigned, wrapped, life>>

\* Lines 189-193: deregister, release the global mutex, mark the timer
\* invalid and clear its accumulator back-reference.
DestroyDereg(t) ==
    /\ pc[t] = "d_dereg"
    /\ LET s == cur[t]
       IN /\ timers_by_id' = [timers_by_id EXCEPT ![timer[s].id] = 0]
          /\ timer' = [timer EXCEPT ![s].is_valid = FALSE,
                                    ![s].event_counts_ptr = NULL]
    /\ gmutex' = FREE
    /\ pc' = [pc EXCEPT ![t] = "d_tlock"]
    /\ UNCHANGED <<next_id, tls_timers, event_counts, tmutex, vm_interrupt,
                   os_timer, frame, cur, warning, old_counts, todo, hpc, hloc,
                   fired, assigned, wrapped, life>>

\* Line 196
DestroyTlock(t) ==
    /\ pc[t] = "d_tlock"
    /\ tmutex[t] = FREE
    /\ tmutex' = [tmutex EXCEPT ![t] = ThreadProc(t)]
    /\ pc' = [pc EXCEPT ![t] = "d_remove"]
    /\ UNCHANGED <<next_id, timers_by_id, gmutex, tls_timers, event_counts,
                   vm_interrupt, timer, os_timer, frame, cur, warning,
                   old_counts, todo, hpc, hloc, fired, assigned, wrapped, life>>

\* Mutant: destroy leaves the timer's count in the accumulator.
DropEventCountNever(counts, id) == counts

\* Line 198: the timer's entry leaves the current accumulator.
DropEventCount(counts, id) == zend_hash_index_del(counts, id)

\* Mutant: the accumulator entry stays behind (line 198 missing).
DestroyRemoveKeepsCount(t) ==
    /\ pc[t] = "d_remove"
    /\ LET s == cur[t]
       IN /\ tls_timers' = [tls_timers EXCEPT ![t] =
                               zend_hash_index_del(@, timer[s].id)]
          /\ os_timer' = [os_timer EXCEPT ![s] = NoOsTimer]
          /\ life' = [life EXCEPT ![s] = "destroyed"]
    /\ tmutex' = [tmutex EXCEPT ![t] = FREE]
    /\ pc' = [pc EXCEPT ![t] = "idle"]
    /\ cur' = [cur EXCEPT ![t] = 0]
    /\ UNCHANGED <<next_id, timers_by_id, gmutex, vm_interrupt, timer, frame,
                   warning, old_counts, todo, hpc, hloc, fired, assigned,
                   wrapped, event_counts>>

\* Lines 198-202: drop the accumulator entry and the thread-local table
\* entry, release the thread-local mutex, delete the OS timer.
DestroyRemove(t) ==
    /\ pc[t] = "d_remove"
    /\ LET s == cur[t]
       IN /\ event_counts' = [event_counts EXCEPT ![t] =
                                 DropEventCount(@, timer[s].id)]
          /\ tls_timers' = [tls_timers EXCEPT ![t] =
                               zend_hash_index_del(@, timer[s].id)]
          /\ os_timer' = [os_timer EXCEPT ![s] = NoOsTimer]
          /\ life' = [life EXCEPT ![s] = "destroyed"]
    /\ tmutex' = [tmutex EXCEPT ![t] = FREE]
    /\ pc' = [pc EXCEPT ![t] = "idle"]
    /\ cur' = [cur EXCEPT ![t] = 0]
    /\ UNCHANGED <<next_id, timers_by_id, gmutex, vm_interrupt, timer, frame,
                   warning, old_counts, todo, hpc, hloc, fired, assigned,
                   wrapped>>

\* ------------------------------------------------------------ the OS timer
\* Events of slot s whose notification handler has not finished yet.
RECURSIVE InFlightSum(_, _)
InFlightSum(s, hs) ==
    IF hs = {} THEN 0
    ELSE LET h == CHOOSE x \in hs : TRUE
         IN (IF hpc[h] # "idle" /\ hloc[h].src = s
             THEN hloc[h].overrun + 1 ELSE 0) + InFlightSum(s, hs \ {h})

InFlight(s) == InFlightSum(s, Handlers)

\* The lowest-numbered free invocation record takes the next notification.
FreeHandler(h) ==
    /\ hpc[h] = "idle"
    /\ \A g \in Handlers : g < h => hpc[g] # "idle"

\* An armed OS timer expires: the OS starts excimer_timer_handle on a
\* notification thread with the timer's token and will report `overrun`
\* for this expiration.  A timer armed without a period expires once.
Fire(s, h, overrun) ==
    /\ os_timer[s].armed
    /\ FreeHandler(h)
    /\ fired[s] + overrun + 1 <= MaxCount
    /\ hpc' = [hpc EXCEPT ![h] = "h_lock"]
    /\ hloc' = [hloc EXCEPT ![h] = [id |-> os_timer[s].token,
                                    overrun |-> overrun,
                                    timer |-> 0, src |-> s]]
    /\ fired' = [fired EXCEPT ![s] = @ + overrun + 1]
    /\ os_timer' = IF excimer_timer_is_zero(os_timer[s].period)
                   THEN [os_timer EXCEPT ![s].armed = FALSE,
                                         ![s].value = ZeroTime]
                   ELSE os_timer
    /\ UNCHANGED <<next_id, timers_by_id, gmutex, tls_timers, event_counts,
                   tmutex, vm_interrupt, timer, frame, pc, cur, warning,
                   old_counts, todo, assigned, wrapped, life>>

\* ----------------------------------------------------- excimer_timer_handle
\* Line 213
HandleLock(h) ==
    /\ hpc[h] = "h_lock"
    /\ gmutex = FREE
    /\ gmutex' = HandlerProc(h)
    /\ hpc' = [hpc EXCEPT ![h] = "h_find"]
    /\ UNCHANGED <<next_id, timers_by_id, tls_timers, event_counts, tmutex,
                   vm_interrupt, timer, os_timer, frame, pc, cur, warning,
                   old_counts, todo, hloc, fired, assigned, wrapped, life>>

\* Mutant: only an unregistered id is ignored.
HandleIgnoresOnlyAbsent(s) == s = 0

\* Line 215: the event is dropped.
HandleIgnores(s) == s = 0 \/ ~timer[s].is_running

\* Lines 214-219
HandleFind(h) ==
    /\ hpc[h] = "h_find"
    /\ LET s == timers_by_id[hloc[h].id]
       IN IF HandleIgnores(s)
          THEN /\ gmutex' = FREE
               /\ hpc' = [hpc EXCEPT ![h] = "idle"]
               /\ hloc' = [hloc EXCEPT ![h] = NoLocals]
          ELSE /\ hpc' = [hpc EXCEPT ![h] = "h_tlock"]
               /\ hloc' = [hloc EXCEPT ![h].timer = s]
               /\ UNCHANGED gmutex
    /\ UNCHANGED <<next_id, timers_by_id, tls_timers, event_counts, tmutex,
                   vm_interrupt, timer, os_timer, frame, pc, cur, warning,
                   old_counts, todo, fired, assigned, wrapped, life>>

\* Mutant: the handler goes on without the thread-local mutex.
HandleTlockNoWait(h) ==
    /\ hpc[h] = "h_tlock"
    /\ hpc' = [hpc EXCEPT ![h] = "h_add"]
    /\ UNCHANGED <<next_id, timers_by_id, gmutex, tls_timers, event_counts,
                   tmutex, vm_interrupt, timer, os_timer, frame, pc, cur,
                   warning, old_counts, todo, hloc, fired, assigned, wrapped, life>>

\* Line 222: excimer_mutex_lock(timer->thread_mutex_ptr)
HandleTlock(h) ==
    /\ hpc[h] = "h_tlock"
    /\ LET o == timer[hloc[h].timer].thread_mutex_ptr
       IN /\ o \in Threads
          /\ tmutex[o] = FREE
          /\ tmutex' = [tmutex EXCEPT ![o] = HandlerProc(h)]
    /\ hpc' = [hpc EXCEPT ![h] = "h_add"]
    /\ UNCHANGED <<next_id, timers_by_id, gmutex, tls_timers, event_counts,
                   vm_interrupt, timer, os_timer, frame, pc, cur, warning,
                   old_counts, todo, hloc, fired, assigned, wrapped, life>>

\* Lines 226-233: add the count to the entry of `id`, creating it if absent.
AddEventCount(ht, id, event_count) ==
    IF zend_hash_index_find(ht, id) = 0
    THEN Append(ht, [h |-> id, val |-> event_count])
    ELSE HashIncr(ht, id, event_count)

\* Mutant: the interrupt flag is not set (line 234 missing).
HandleAddNoFlag(h) ==
    /\ hpc[h] = "h_add"
    /\ LET s == hloc[h].timer
           acc == timer[s].event_counts_ptr
       IN /\ event_counts' =
                IF acc \in Threads
                THEN [event_counts EXCEPT ![acc] =
                         AddEventCount(@, hloc[h].id, hloc[h].overrun + 1)]
                ELSE event_counts
          /\ tmutex' = [tmutex EXCEPT ![timer[s].thread_mutex_ptr] = FREE]
    /\ gmutex' = FREE
    /\ hpc' = [hpc EXCEPT ![h] = "idle"]
    /\ hloc' = [hloc EXCEPT ![h] = NoLocals]
    /\ UNCHANGED <<next_id, timers_by_id, tls_timers, timer, os_timer, frame,
                   pc, cur, warning, old_counts, todo, fired, assigned, wrapped,
                   life, vm_interrupt>>

\* Lines 225-237
HandleAdd(h) ==
    /\ hpc[h] = "h_add"
    /\ LET s == hloc[h].timer
           acc == timer[s].event_counts_ptr
           event_count == hloc[h].overrun + 1
       IN /\ event_counts' =
                IF acc \in Threads
                THEN [event_counts EXCEPT ![acc] =
                         AddEventCount(@, hloc[h].id, event_count)]
                ELSE event_counts
          /\ vm_interrupt' = [vm_interrupt EXCEPT ![timer[s].vm_interrupt_ptr] = TRUE]
          /\ tmutex' = [tmutex EXCEPT ![timer[s].thread_mutex_ptr] = FREE]
    /\ gmutex' = FREE
    /\ hpc' = [hpc EXCEPT ![h] = "idle"]
    /\ hloc' = [hloc EXCEPT ![h] = NoLocals]
    /\ UNCHANGED <<next_id, timers_by_id, tls_timers, timer, os_timer, frame,
                   pc, cur, warning, old_counts, todo, fired, assigned, wrapped,
                   life>>

\* -------------------------------------------------- excimer_timer_interrupt
\* The engine reaches a checkpoint of thread t, clears EG(vm_interrupt) and
\* calls zend_interrupt_function.
InterruptCall(t) ==
    /\ frame[t] = "run"
    /\ pc[t] = "idle"
    /\ vm_interrupt[t]
    /\ vm_interrupt' = [vm_interrupt EXCEPT ![t] = FALSE]
    /\ frame' = [frame EXCEPT ![t] = "n_lock"]
    /\ UNCHANGED <<next_id, timers_by_id, gmutex, tls_timers, event_counts,
                   tmutex, timer, os_timer, pc, cur, warning, old_counts, todo,
                   hpc, hloc, fired, assigned, wrapped, life>>

\* Line 246
InterruptLock(t) ==
    /\ frame[t] = "n_lock"
    /\ tmutex[t] = FREE
    /\ tmutex' = [tmutex EXCEPT ![t] = ThreadProc(t)]
    /\ frame' = [frame EXCEPT ![t] = "n_swap"]
    /\ UNCHANGED <<next_id, timers_by_id, gmutex, tls_timers, event_counts,
                   vm_interrupt, timer, os_timer, pc, cur, warning, old_counts,
                   todo, hpc, hloc, fired, assigned, wrapped, life>>

\* Mutant: the thread-local mutex stays locked over the callbacks.
InterruptSwapKeepsLock(t) ==
    /\ frame[t] = "n_swap"
    /\ old_counts' = [old_counts EXCEPT ![t] = event_counts[t]]
    /\ event_counts' = [event_counts EXCEPT ![t] = <<>>]
    /\ frame' = [frame EXCEPT ![t] = "n_drain"]
    /\ UNCHANGED <<next_id, timers_by_id, gmutex, tls_timers, tmutex,
                   vm_interrupt, timer, os_timer, pc, cur, warning, hpc, hloc,
                   todo, fired, assigned, wrapped, life>>

\* Lines 247-250: swap in an empty accumulator and release the mutex.
InterruptSwap(t) ==
    /\ frame[t] = "n_swap"
    /\ old_counts' = [old_counts EXCEPT ![t] = event_counts[t]]
    /\ event_counts' = [event_counts EXCEPT ![t] = <<>>]
    /\ tmutex' = [tmutex EXCEPT ![t] = FREE]
    /\ frame' = [frame EXCEPT ![t] = "n_drain"]
    /\ fired' = [s \in Slots |->
                   IF timer[s].thread_mutex_ptr = t THEN InFlight(s) ELSE fired[s]]
    /\ UNCHANGED <<next_id, timers_by_id, gmutex, tls_timers, vm_interrupt,
                   timer, os_timer, pc, cur, warning, hpc, hloc, todo, assigned,
                   wrapped, life>>

\* Mutant: every entry's callback is invoked, without the table lookup.
InterruptDrainNoLookup(t) ==
    /\ frame[t] = "n_drain"
    /\ frame' = [frame EXCEPT ![t] = IF old_counts[t] = <<>> THEN "run" ELSE "cb"]
    /\ UNCHANGED <<next_id, timers_by_id, gmutex, tls_timers, event_counts,
                   tmutex, vm_interrupt, timer, os_timer, pc, cur, warning, todo,
                   hpc, hloc, fired, assigned, wrapped, life, old_counts>>

\* Lines 252-268: visit the next entry of the swapped-out accumulator; its
\* callback is invoked if the id is still in the thread-local table.  After
\* the last entry the old accumulator is freed and the handler returns.
InterruptDrain(t) ==
    /\ frame[t] = "n_drain"
    /\ IF old_counts[t] = <<>>
       THEN /\ frame' = [frame EXCEPT ![t] = "run"]
            /\ UNCHANGED old_counts
       ELSE IF zend_hash_index_find(tls_timers[t], Head(old_counts[t]).h) # 0
       THEN /\ frame' = [frame EXCEPT ![t] = "cb"]
            /\ UNCHANGED old_counts
       ELSE /\ old_counts' = [old_counts EXCEPT ![t] = Tail(@)]
            /\ UNCHANGED frame
    /\ UNCHANGED <<next_id, timers_by_id, gmutex, tls_timers, event_counts,
                   tmutex, vm_interrupt, timer, os_timer, pc, cur, warning, todo,
                   hpc, hloc, fired, assigned, wrapped, life>>

\* Line 257 returns: the callback, which received
\* Head(old_counts[t]).val, is done and the loop moves on.
CallbackReturn(t) ==
    /\ frame[t] = "cb"
    /\ pc[t] = "idle"
    /\ old_counts' = [old_counts EXCEPT ![t] = Tail(@)]
    /\ frame' = [frame EXCEPT ![t] = "n_drain"]
    /\ UNCHANGED <<next_id, timers_by_id, gmutex, tls_timers, event_counts,
                   tmutex, vm_interrupt, timer, os_timer, pc, cur, warning, todo,
                   hpc, hloc, fired, assigned, wrapped, life>>

\* -------------------------------------------- excimer_timer_thread_shutdown
DESTROYED == -1

ShutdownCall(t) ==
    /\ frame[t] = "run"
    /\ pc[t] = "idle"
    /\ frame' = [frame EXCEPT ![t] = "ts_loop"]
    /\ todo' = [todo EXCEPT ![t] = tls_timers[t]]
    /\ UNCHANGED <<next_id, timers_by_id, gmutex, tls_timers, event_counts,
                   tmutex, vm_interrupt, timer, os_timer, pc, cur, warning,
                   old_counts, hpc, hloc, fired, assigned, wrapped, life>>

\* Lines 85-93: destroy the next timer of the thread-local table; after the
\* last one the table is freed.
ShutdownNext(t) ==
    /\ frame[t] = "ts_loop"
    /\ pc[t] = "idle"
    /\ IF todo[t] # <<>>
       THEN /\ pc' = [pc EXCEPT ![t] = "d_check"]
            /\ cur' = [cur EXCEPT ![t] = Head(todo[t]).val]
            /\ todo' = [todo EXCEPT ![t] = Tail(@)]
            /\ UNCHANGED <<tls_timers, frame>>
       ELSE /\ tls_timers' = [tls_timers EXCEPT ![t] = <<>>]
            /\ frame' = [frame EXCEPT ![t] = "ts_lock"]
            /\ UNCHANGED <<pc, cur, todo>>
    /\ UNCHANGED <<next_id, timers_by_id, gmutex, event_counts, tmutex,
                   vm_interrupt, timer, os_timer, warning, old_counts, hpc, hloc,
                   fired, assigned, wrapped, life>>

\* Line 97
ShutdownLock(t) ==
    /\ frame[t] = "ts_lock"
    /\ tmutex[t] = FREE
    /\ tmutex' = [tmutex EXCEPT ![t] = ThreadProc(t)]
    /\ frame' = [frame EXCEPT ![t] = "ts_free"]
    /\ UNCHANGED <<next_id, timers_by_id, gmutex, tls_timers, event_counts,
                   vm_interrupt, timer, os_timer, pc, cur, warning, old_counts,
                   todo, hpc, hloc, fired, assigned, wrapped, life>>

\* Lines 98-103: free the accumulator, release and destroy the mutex.
ShutdownFree(t) ==
    /\ frame[t] = "ts_free"
    /\ event_counts' = [event_counts EXCEPT ![t] = <<>>]
    /\ tmutex' = [tmutex EXCEPT ![t] = DESTROYED]
    /\ frame' = [frame EXCEPT ![t] = "dead"]
    /\ UNCHANGED <<next_id, timers_by_id, gmutex, tls_timers, vm_interrupt,
                   timer, os_timer, pc, cur, warning, old_counts, todo, hpc, hloc,
                   fired, assigned, wrapped, life>>

\* ----------------------------------------------------------- specifications
\* The whole system: every thread may make every call on every timer.
Next ==
    \/ \E t \in Threads, s \in Slots : InitCall(t, s)
    \/ \E t \in Threads : InitLock(t)
    \/ \E t \in Threads : InitReg(t)
    \/ \E t \in Threads : InitTls(t)
    \/ \E t \in Threads, s \in Slots, period \in TimeSpecs, initial \in TimeSpecs :
          StartCall(t, s, period, initial)
    \/ \E t \in Threads : StartRun(t)
    \/ \E t \in Threads, s \in Slots : DestroyCall(t, s)
    \/ \E t \in Threads : DestroyCheck(t)
    \/ \E t \in Threads : DestroyGlock(t)
    \/ \E t \in Threads : DestroyDereg(t)
    \/ \E t \in Threads : DestroyTlock(t)
    \/ \E t \in Threads : DestroyRemove(t)
    \/ \E s \in Slots, h \in Handlers, overrun \in 0..MaxOverrun : Fire(s, h, overrun)
    \/ \E h \in Handlers : HandleLock(h)
    \/ \E h \in Handlers : HandleFind(h)
    \/ \E h \in Handlers : HandleTlock(h)
    \/ \E h \in Handlers : HandleAdd(h)
    \/ \E t \in Threads : InterruptCall(t)
    \/ \E t \in Threads : InterruptLock(t)
    \/ \E t \in Threads : InterruptSwap(t)
    \/ \E t \in Threads : InterruptDrain(t)
    \/ \E t \in Threads : CallbackReturn(t)
    \/ \E t \in Threads : ShutdownCall(t)
    \/ \E t \in Threads : ShutdownNext(t)
    \/ \E t \in Threads : ShutdownLock(t)
    \/ \E t \in Threads : ShutdownFree(t)

Spec == Init /\ [][Next]_vars

\* The steps inside the API calls of thread t.
CallSteps(t) ==
    \/ InitLock(t)
    \/ InitReg(t)
    \/ InitTls(t)
    \/ StartRun(t)
    \/ DestroyCheck(t)
    \/ DestroyGlock(t)
    \/ DestroyDereg(t)
    \/ DestroyTlock(t)
    \/ DestroyRemove(t)

\* The steps of the notification handler invocations.
HandlerSteps ==
    \/ \E h \in Handlers : HandleLock(h)
    \/ \E h \in Handlers : HandleFind(h)
    \/ \E h \in Handlers : HandleTlock(h)
    \/ \E h \in Handlers : HandleAdd(h)

\* The steps of the interrupt handler of thread t.
InterruptSteps(t) ==
    \/ InterruptCall(t)
    \/ InterruptLock(t)
    \/ InterruptSwap(t)
    \/ InterruptDrain(t)
    \/ CallbackReturn(t)

\* A new timer object is placed in the lowest unused slot.
LowestUnused(s) == SlotUnused(s) /\ \A r \in Slots : r < s => ~SlotUnused(r)

\* Timer lifecycle on all threads, the id counter wrapping included; no
\* timer fires.
NextLife ==
    \/ \E t \in Threads, s \in Slots : InitCall(t, s)
    \/ \E t \in Threads, s \in Slots, period \in TimeSpecs, initial \in TimeSpecs :
          StartCall(t, s, period, initial)
    \/ \E t \in Threads, s \in Slots : DestroyCall(t, s)
    \/ \E t \in Threads : CallSteps(t)

SpecLife == Init /\ [][NextLife]_vars

\* One timer of one thread against its notifications and the thread's
\* interrupt handler, before the id counter wraps.
NextRace ==
    \/ ~wrapped /\ InitCall(1, 1)
    \/ \E period \in TimeSpecs, initial \in TimeSpecs : StartCall(1, 1, period, initial)
    \/ DestroyCall(1, 1)
    \/ CallSteps(1)
    \/ \E h \in Handlers, overrun \in 0..MaxOverrun : Fire(1, h, overrun)
    \/ HandlerSteps
    \/ InterruptSteps(1)

SpecRace == Init /\ [][NextRace]_vars

PeriodicTime == [tv_sec |-> 0, tv_nsec |-> 1]

\* One thread with several periodic timers, whose callbacks create and
\* destroy timers, before the id counter wraps.
NextDrain ==
    \/ \E s \in Slots : ~wrapped /\ LowestUnused(s) /\ InitCall(1, s)
    \/ \E s \in Slots : StartCall(1, s, PeriodicTime, PeriodicTime)
    \/ \E s \in Slots : DestroyCall(1, s)
    \/ CallSteps(1)
    \/ \E s \in Slots, h \in Handlers : Fire(s, h, 0)
    \/ HandlerSteps
    \/ InterruptSteps(1)

SpecDrain == Init /\ [][NextDrain]_vars

\* Every operation on every thread; each thread creates, starts and
\* destroys one periodic timer of its own.
NextAll ==
    \/ \E t \in Threads : timer[t].thread_mutex_ptr = NULL /\ InitCall(t, t)
    \/ \E t \in Threads : StartCall(t, t, PeriodicTime, PeriodicTime)
    \/ \E t \in Threads : DestroyCall(t, t)
    \/ \E t \in Threads : CallSteps(t)
    \/ \E t \in Threads, h \in Handlers : Fire(t, h, 0)
    \/ HandlerSteps
    \/ \E t \in Threads : InterruptSteps(t)
    \/ \E t \in Threads : ShutdownCall(t)
    \/ \E t \in Threads : ShutdownNext(t)
    \/ \E t \in Threads : ShutdownLock(t)
    \/ \E t \in Threads : ShutdownFree(t)

SpecAll == Init /\ [][NextAll]_vars

\* The time values given to start when its arguments are what matters:
\* zero, nanoseconds only, seconds only.
StartTimes == TimeSpecs \cup {[tv_sec |-> 1, tv_nsec |-> 0]}

\* One timer of one thread, started with every pair of time values.
NextStart ==
    \/ InitCall(1, 1)
    \/ \E period \in StartTimes, initial \in StartTimes : StartCall(1, 1, period, initial)
    \/ DestroyCall(1, 1)
    \/ CallSteps(1)

SpecStart == Init /\ [][NextStart]_vars

\* SpecRace with the scheduling the delivery of counts relies on: a step
\* that stays possible is taken (calls, handlers and the interrupt handler
\* run on), the engine comes to a checkpoint of the thread again and again
\* while the interrupt flag is set, and a callback returns.
SpecDeliver ==
    /\ Init /\ [][NextRace]_vars
    /\ WF_vars(CallSteps(1))
    /\ WF_vars(HandlerSteps)
    /\ SF_vars(InterruptCall(1))
    /\ WF_vars(InterruptLock(1) \/ InterruptSwap(1) \/ InterruptDrain(1))
    /\ SF_vars(CallbackReturn(1))

\* ------------------------------------------------------------------ claims
\* The accumulated count of `id` in thread t's current accumulator.
AccCount(t, id) ==
    IF id \in HashKeys(event_counts[t]) THEN HashVal(event_counts[t], id) ELSE 0

DestroyPcs == {"d_check", "d_glock", "d_dereg", "d_tlock", "d_remove"}

\* No destroy call on the timer of slot s has begun.
NotBeingDestroyed(s) == \A t \in Threads : cur[t] = s => pc[t] \notin DestroyPcs

\* C1: for a timer that is not destroyed, every firing whose handler has
\* run since the owner's last swap is in the accumulator entry that the
\* next drain hands to the callback in one invocation: the entry holds the
\* sum of (overrun + 1) over those firings, whatever the interleaving with
\* start and the interrupt handler, and there is one entry per id.
C1_CountsNeverLost ==
    \A s \in Slots :
        (timer[s].is_valid /\ NotBeingDestroyed(s)) =>
            LET t == timer[s].thread_mutex_ptr
            IN /\ AccCount(t, timer[s].id) = fired[s] - InFlight(s)
               /\ Cardinality(HashKeys(event_counts[t])) = Len(event_counts[t])

\* The slot holds a timer that its creator has not finished destroying, or
\* one whose OS timer could not be created.
Held(s) ==
    \/ life[s] = "registered"
    \/ timer[s].id # 0 /\ timer[s].event_counts_ptr # NULL

\* The ids of the timers that were valid and on which destroy has returned.
DestroyedIds == assigned \ {timer[s].id : s \in {x \in Slots : Held(x)}}

\* C3: once destroy has returned, the timer's id is in no registry, no
\* thread-local table and no current accumulator, and no handler invocation
\* is on its way to add an entry for it.
C3_NoResidueAfterDestroy ==
    \A id \in DestroyedIds :
        /\ timers_by_id[id] = 0
        /\ \A t \in Threads : id \notin HashKeys(tls_timers[t])
        /\ \A t \in Threads : id \notin HashKeys(event_counts[t])
        /\ \A h \in Handlers : hpc[h] \in {"h_tlock", "h_add"} => hloc[h].id # id

\* A notification that was in flight when destroy returned looks the id up.
C3_Witness ==
    \E h \in Handlers : hpc[h] = "h_find" /\ hloc[h].id \in DestroyedIds

\* C4: a handler invocation that has found a timer holds the global mutex
\* until it is done with the timer, and all that time the timer is still
\* registered under the id, valid, with its accumulator back-reference, its
\* thread-local entry and its OS timer, and no destroy call on it is past
\* the acquisition of the global mutex.
C4_NoUseAfterFree ==
    \A h \in Handlers :
        hpc[h] \in {"h_tlock", "h_add"} =>
            LET s == hloc[h].timer
            IN /\ gmutex = HandlerProc(h)
               /\ timers_by_id[hloc[h].id] = s
               /\ timer[s].is_valid
               /\ timer[s].event_counts_ptr \in Threads
               /\ os_timer[s].exists
               /\ hloc[h].id \in HashKeys(tls_timers[timer[s].thread_mutex_ptr])
               /\ \A t \in Threads :
                     cur[t] = s => pc[t] \notin {"d_dereg", "d_tlock", "d_remove"}

\* The handler is adding the count while destroy waits for the global mutex.
C4_Witness ==
    \E h \in Handlers, t \in Threads :
        hpc[h] = "h_add" /\ pc[t] = "d_glock" /\ cur[t] = hloc[h].timer

\* The timers their callers have not destroyed: registered by an init call,
\* with no destroy call by the creating thread completed since.
NonDestroyed == {s \in Slots : life[s] = "registered"}

\* C2: whenever no call is in progress, the ids in the global registry are
\* exactly the ids of the non-destroyed timers, and so are, thread by
\* thread, the ids in the thread-local table.
C2_TablesHoldNonDestroyed ==
    (\A t \in Threads : pc[t] = "idle") =>
        /\ {i \in Ids : timers_by_id[i] # 0} = {timer[s].id : s \in NonDestroyed}
        /\ \A t \in Threads :
              HashKeys(tls_timers[t]) =
                  {timer[s].id : s \in {x \in NonDestroyed :
                                            timer[x].thread_mutex_ptr = t}}

\* C5: a destroy call on a valid timer by a thread that did not create it
\* returns with the diagnostic and leaves the timer, the registry, the
\* thread-local tables, the accumulators and the OS timers as they were.
C5_ForeignDestroyChangesNothing ==
    [][\A t \in Threads :
          (/\ pc[t] = "d_check"
           /\ pc'[t] # "d_check"
           /\ timer[cur[t]].is_valid
           /\ timer[cur[t]].thread_mutex_ptr # t)
          => (/\ pc'[t] = "idle"
              /\ warning'[t] = "other_thread"
              /\ UNCHANGED <<timer, timers_by_id, tls_timers, event_counts,
                             os_timer>>)]_vars

\* A thread has been refused the destroy of another thread's timer, which
\* is still valid, running and armed.
C5_Witness ==
    \E t \in Threads, s \in Slots :
        /\ pc[t] = "idle"
        /\ warning[t] = "other_thread"
        /\ timer[s].thread_mutex_ptr # t
        /\ timer[s].is_valid
        /\ timer[s].is_running
        /\ os_timer[s].armed

\* init has returned FAILURE on slot s because the OS timer could not be
\* created.
FailedCreate(s) ==
    /\ timer[s].id # 0
    /\ ~timer[s].is_valid
    /\ timer[s].event_counts_ptr # NULL
    /\ \A t \in Threads : cur[t] # s

\* C6: a timer whose OS timer could not be created stays registered in the
\* global registry and in its thread's table, invalid, until its owner
\* calls destroy; after that call neither table has an entry for it.
C6_FailedInitRemovedByDestroy ==
    \A s \in Slots :
        FailedCreate(s) =>
            LET id == timer[s].id
                t == timer[s].thread_mutex_ptr
            IN /\ life[s] = "registered" =>
                     timers_by_id[id] # 0 /\ id \in HashKeys(tls_timers[t])
               /\ life[s] = "destroyed" =>
                     timers_by_id[id] # s /\ id \notin HashKeys(tls_timers[t])

\* C7: the init step that takes the counter value zero ends the call with
\* the overflow diagnostic, leaves the timer invalid and changes no
\* registry, thread-local table or accumulator.
C7_OverflowInitChangesNoTable ==
    [][\A t \in Threads :
          (pc[t] = "i_reg" /\ pc'[t] # "i_reg" /\ next_id = 0)
          => (/\ pc'[t] = "idle"
              /\ warning'[t] = "overflow"
              /\ ~timer'[cur[t]].is_valid
              /\ UNCHANGED <<timers_by_id, tls_timers, event_counts>>)]_vars

\* An init call has failed on the overflow while another timer is
\* registered.
C7_Witness ==
    \E t \in Threads :
        /\ pc[t] = "idle"
        /\ warning[t] = "overflow"
        /\ \E i \in Ids : timers_by_id[i] # 0

\* C8: until an init has taken the counter value zero, the id an init
\* registers is greater than every id handed out before it.
C8_IdsStrictlyIncrease ==
    [][\A t \in Threads :
          (pc[t] = "i_reg" /\ pc'[t] = "i_tls" /\ ~wrapped)
          => \A j \in assigned : timer'[cur[t]].id > j]_vars

\* Two threads hold valid timers created after an earlier timer was
\* destroyed, and the counter has not wrapped.
C8_Witness ==
    /\ ~wrapped
    /\ DestroyedIds # {}
    /\ \E s1 \in Slots, s2 \in Slots :
          /\ timer[s1].is_valid
          /\ timer[s2].is_valid
          /\ timer[s1].thread_mutex_ptr # timer[s2].thread_mutex_ptr
          /\ \A j \in DestroyedIds : timer[s1].id > j /\ timer[s2].id > j

\* The processes: the threads and the handler invocations.
Procs == {ThreadProc(t) : t \in Threads} \cup {HandlerProc(h) : h \in Handlers}

\* Locks are named 0 (the global mutex) and t (the thread-local mutex of
\* thread t); -1 stands for no lock.
LockValue(l) == IF l = 0 THEN gmutex ELSE tmutex[l]

\* The lock process p is about to acquire.
WantedBy(p) ==
    IF p \in Threads
    THEN IF pc[p] \in {"i_lock", "d_glock"} THEN 0
         ELSE IF pc[p] = "d_tlock" THEN p
         ELSE IF pc[p] = "idle" /\ frame[p] \in {"n_lock", "ts_lock"} THEN p
         ELSE -1
    ELSE LET h == p - NumThreads
         IN IF hpc[h] = "h_lock" THEN 0
            ELSE IF hpc[h] = "h_tlock"
                 THEN timer[hloc[h].timer].thread_mutex_ptr
                 ELSE -1

\* Process p is inside a critical section, at a step that needs no lock.
InCriticalSection(p) ==
    IF p \in Threads
    THEN pc[p] \in {"i_reg", "d_dereg", "d_remove"} \/ frame[p] \in {"n_swap", "ts_free"}
    ELSE hpc[p - NumThreads] \in {"h_find", "h_tlock", "h_add"}

\* Following the holders of the locks waited for, from p, ends at a process
\* that waits for nothing.
RECURSIVE CanProceed(_, _)
CanProceed(p, n) ==
    LET l == WantedBy(p)
    IN \/ l = -1
       \/ LockValue(l) = FREE
       \/ /\ n > 0
          /\ LockValue(l) \in Procs \ {p}
          /\ CanProceed(LockValue(l), n - 1)

\* C9: no process waits for the global mutex while holding a thread-local
\* one; a process holding both is a handler that took the global one first;
\* every lock is held by a process inside its critical section; and every
\* chain of processes waiting for each other's locks ends at a process that
\* can run, so no state is a deadlock.
C9_LockOrderNoDeadlock ==
    /\ \A p \in Procs :
          WantedBy(p) = 0 => \A t \in Threads : tmutex[t] # p
    /\ \A p \in Procs :
          (gmutex = p /\ \E t \in Threads : tmutex[t] = p) =>
              (p \notin Threads /\ hpc[p - NumThreads] = "h_add")
    /\ \A p \in Procs :
          (gmutex = p \/ \E t \in Threads : tmutex[t] = p) => InCriticalSection(p)
    /\ \A p \in Procs : CanProceed(p, Cardinality(Procs))

\* A thread waits for the global mutex, held by a handler that waits for a
\* thread-local mutex, held by a thread inside its interrupt handler.
C9_Witness ==
    \E t \in Threads, h \in Handlers, u \in Threads :
        /\ WantedBy(ThreadProc(t)) = 0
        /\ gmutex = HandlerProc(h)
        /\ WantedBy(HandlerProc(h)) = u
        /\ tmutex[u] = ThreadProc(u)
        /\ frame[u] = "n_swap"

\* C10: a callback runs inside the interrupt handler of the thread whose
\* table holds the timer, which is the thread that created it; while it
\* runs the thread holds no lock but the one a call made by the callback
\* is inside of, so the calls of a callback never wait for a lock of
\* their own thread.
C10_CallbackHoldsNoLock ==
    /\ \A t \in Threads :
          frame[t] = "cb" =>
              /\ old_counts[t] # <<>>
              /\ gmutex = ThreadProc(t) => pc[t] \in {"i_reg", "d_dereg"}
              /\ tmutex[t] = ThreadProc(t) => pc[t] = "d_remove"
              /\ \A u \in Threads \ {t} : tmutex[u] # ThreadProc(t)
    /\ \A t \in Threads : \A i \in 1..Len(tls_timers[t]) :
          timer[tls_timers[t][i].val].thread_mutex_ptr = t

\* The callback of the first of two drained entries is destroying a timer
\* and about to take the thread-local mutex.
C10_Witness ==
    \E t \in Threads :
        frame[t] = "cb" /\ pc[t] = "d_tlock" /\ Len(old_counts[t]) >= 2

\* C11: a handler invocation that finds its id absent from the registry,
\* or finds the registered timer not running, returns from the lookup with
\* the global mutex released and nothing else changed: no accumulator, no
\* interrupt flag, no thread-local mutex, no table and no timer; and before
\* the lookup it has changed nothing but the global mutex it took.
C11_IgnoredEventChangesNothing ==
    [][\A h \in Handlers :
          /\ (hpc[h] = "h_lock" /\ hpc'[h] # "h_lock") =>
                /\ hpc'[h] = "h_find" /\ gmutex' = HandlerProc(h)
                /\ UNCHANGED <<event_counts, vm_interrupt, tmutex, timers_by_id,
                               tls_timers, timer, os_timer, old_counts>>
          /\ (/\ hpc[h] = "h_find" /\ hpc'[h] # "h_find"
              /\ LET s == timers_by_id[hloc[h].id]
                 IN s = 0 \/ ~timer[s].is_running) =>
                /\ hpc'[h] = "idle" /\ gmutex' = FREE
                /\ UNCHANGED <<event_counts, vm_interrupt, tmutex, timers_by_id,
                               tls_timers, timer, os_timer, old_counts>>]_vars

\* A firing of a registered, live timer has been handled and has left no
\* trace: nothing is accumulated, no flag is set, no lock is held.
C11_Witness ==
    \E s \in Slots :
        /\ fired[s] > 0 /\ life[s] = "registered" /\ timer[s].is_valid
        /\ timers_by_id[timer[s].id] = s
        /\ \A h \in Handlers : hpc[h] = "idle"
        /\ \A t \in Threads :
              event_counts[t] = <<>> /\ old_counts[t] = <<>> /\ ~vm_interrupt[t]
                /\ tmutex[t] = FREE
        /\ gmutex = FREE

\* C12: start on a valid timer with period zero and initial zero is over in
\* one step that changes neither the timer nor its OS timer; called on a
\* timer that is not running, it leaves the OS timer unarmed and is_running
\* false.
C12_ZeroStartLeavesTimerStopped ==
    [][\A t \in Threads, s \in Slots :
          (timer[s].is_valid /\ StartCall(t, s, ZeroTime, ZeroTime)) =>
              /\ UNCHANGED <<timer, os_timer>>
              /\ pc'[t] = "idle"
              /\ ~timer[s].is_running =>
                    (~timer'[s].is_running /\ ~os_timer'[s].armed)]_vars

\* A valid timer after a refused start: the diagnostic was raised, the
\* timer is not running and its OS timer is not armed.
C12_Witness ==
    \E t \in Threads, s \in Slots :
        /\ warning[t] = "zero_duration" /\ pc[t] = "idle"
        /\ timer[s].thread_mutex_ptr = t /\ timer[s].is_valid
        /\ ~timer[s].is_running /\ ~os_timer[s].armed

\* C13: start on a valid timer with a non-zero effective initial value
\* either arms the OS timer with the period given and, as initial value, the
\* initial given if that is non-zero and the period otherwise, and then sets
\* is_running; or the OS start fails and the call changes nothing.
\* is_running becomes true only as the last step of a start whose OS start
\* succeeded.
C13_StartArmsWithEffectiveInitial ==
    [][/\ \A t \in Threads, s \in Slots, period \in StartTimes, initial \in StartTimes :
             (/\ timer[s].is_valid
              /\ ~(period = ZeroTime /\ initial = ZeroTime)
              /\ StartCall(t, s, period, initial)) =>
                 \/ /\ os_timer'[s].armed
                    /\ os_timer'[s].period = period
                    /\ os_timer'[s].value = (IF initial = ZeroTime THEN period ELSE initial)
                    /\ pc'[t] = "s_run" /\ cur'[t] = s
                    /\ timer' = timer
                 \/ /\ UNCHANGED <<timer, os_timer>>
                    /\ pc'[t] = "idle"
       /\ \A t \in Threads :
             (pc[t] = "s_run" /\ pc'[t] # "s_run") =>
                 (timer'[cur[t]].is_running /\ pc'[t] = "idle")
       /\ \A s \in Slots :
             (~timer[s].is_running /\ timer'[s].is_running) =>
                 \E t \in Threads : pc[t] = "s_run" /\ cur[t] = s]_vars

\* A running timer armed with a non-zero initial value that differs from
\* its non-zero period.
C13_Witness ==
    \E s \in Slots :
        /\ timer[s].is_valid /\ timer[s].is_running /\ os_timer[s].armed
        /\ os_timer[s].period = PeriodicTime
        /\ os_timer[s].value = [tv_sec |-> 1, tv_nsec |-> 0]

\* C14: a destroy call on a timer that is invalid, or whose destroy has
\* completed, returns from its first test with no table, accumulator, timer
\* field, OS timer or lock changed; a timer is deregistered only by a destroy
\* call that found it valid, and an OS timer is deleted only by the destroy
\* call that invalidated its timer, so both happen once per timer.
C14_DestroyIsIdempotent ==
    [][/\ \A t \in Threads :
             (/\ pc[t] = "d_check" /\ pc'[t] # "d_check"
              /\ (~timer[cur[t]].is_valid \/ life[cur[t]] = "destroyed")) =>
                 /\ pc'[t] = "idle"
                 /\ UNCHANGED <<timers_by_id, tls_timers, event_counts, timer,
                                os_timer, gmutex, tmutex, vm_interrupt, next_id>>
       /\ \A t \in Threads :
             (pc[t] # "d_glock" /\ pc'[t] = "d_glock") =>
                 (timer[cur'[t]].is_valid /\ life[cur'[t]] # "destroyed")
       /\ \A s \in Slots :
             (os_timer[s].exists /\ ~os_timer'[s].exists) =>
                 /\ \E t \in Threads : pc[t] = "d_remove" /\ cur[t] = s
                 /\ ~timer[s].is_valid /\ life[s] # "destroyed"]_vars

\* The owner calls destroy again on the timer it has destroyed: the call is
\* at its first test, the id is in no table and the OS timer is gone.
C14_Witness ==
    \E t \in Threads :
        /\ pc[t] = "d_check"
        /\ LET s == cur[t]
           IN /\ life[s] = "destroyed" /\ timer[s].thread_mutex_ptr = t
              /\ ~timer[s].is_valid /\ ~os_timer[s].exists
              /\ timers_by_id[timer[s].id] # s
              /\ zend_hash_index_find(tls_timers[t], timer[s].id) = 0

\* C15: when the interrupt handler comes to an entry of the swapped-out
\* accumulator, it invokes a callback only if the entry's id belongs to a
\* timer of this thread that has not been destroyed; the entry of a timer
\* whose destroy has completed, an earlier callback of the same drain
\* included, is passed over without a callback.
C15_NoCallbackAfterDestroy ==
    [][\A t \in Threads :
          (/\ frame[t] = "n_drain" /\ old_counts[t] # <<>>
           /\ (frame'[t] # frame[t] \/ old_counts'[t] # old_counts[t])) =>
              LET id == Head(old_counts[t]).h
                  live == {s \in Slots : /\ timer[s].id = id
                                         /\ life[s] = "registered"
                                         /\ timer[s].thread_mutex_ptr = t}
              IN IF live = {} \/ id \in DestroyedIds
                 THEN frame'[t] = "n_drain" /\ old_counts'[t] = Tail(old_counts[t])
                 ELSE frame'[t] = "cb" /\ old_counts'[t] = old_counts[t]]_vars

\* The drain has come to the count of a timer that a callback of this drain
\* has destroyed.
C15_Witness ==
    \E t \in Threads :
        /\ frame[t] = "n_drain" /\ old_counts[t] # <<>>
        /\ Head(old_counts[t]).h \in DestroyedIds
        /\ Head(old_counts[t]).h \notin HashKeys(tls_timers[t])

\* Process p is at a step that reads or writes the current accumulator of
\* thread t: the handler's update, the interrupt handler's swap, destroy's
\* entry removal, thread shutdown's destruction.
AccessesAccumulator(p, t) ==
    IF p \in Threads
    THEN p = t /\ (pc[p] = "d_remove" \/ (pc[p] = "idle" /\ frame[p] \in {"n_swap", "ts_free"}))
    ELSE /\ hpc[p - NumThreads] = "h_add"
         /\ timer[hloc[p - NumThreads].timer].event_counts_ptr = t

\* C16: a process at a step that accesses a thread's current accumulator
\* holds that thread's thread-local mutex, so no two processes are at such a
\* step for one accumulator; a handler there has a live accumulator to
\* write to; and the accumulator changes only in a step of the process
\* that holds the mutex.
C16_AccumulatorUnderThreadLock ==
    /\ [](\A p \in Procs, t \in Threads : AccessesAccumulator(p, t) => tmutex[t] = p)
    /\ [](\A h \in Handlers :
             hpc[h] = "h_add" =>
                 LET s == hloc[h].timer
                 IN /\ timer[s].event_counts_ptr \in Threads
                    /\ timer[s].event_counts_ptr = timer[s].thread_mutex_ptr
                    /\ frame[timer[s].event_counts_ptr] # "dead")
    /\ [][\A t \in Threads :
             event_counts'[t] # event_counts[t] =>
                 \E p \in Procs :
                     /\ tmutex[t] = p
                     /\ AccessesAccumulator(p, t)
                     /\ ~AccessesAccumulator(p, t)']_vars

\* A handler is updating the accumulator under the thread-local mutex while
\* the owning thread's interrupt handler waits for that mutex.
C16_Witness ==
    \E h \in Handlers, t \in Threads :
        /\ AccessesAccumulator(HandlerProc(h), t)
        /\ frame[t] = "n_lock"
        /\ event_counts[t] # <<>>

\* The timers thread t created: init recorded t's back-references in them
\* and gave them an id.
CreatedBy(t) == {s \in Slots : timer[s].thread_mutex_ptr = t /\ timer[s].id # 0}

\* C17: once thread shutdown has returned, no timer the thread created is in
\* the global registry, valid or running, and no handler invocation has
\* found one of them and is on its way to the thread's mutex or accumulator.
C17_ShutdownDestroysAllTimers ==
    \A t \in Threads :
        frame[t] = "dead" =>
            /\ \A s \in CreatedBy(t) :
                  /\ timers_by_id[timer[s].id] # s
                  /\ ~timer[s].is_valid
                  /\ ~timer[s].is_running
            /\ \A h \in Handlers :
                  hpc[h] \in {"h_tlock", "h_add"} => hloc[h].timer \notin CreatedBy(t)

\* C18: in every state, also after the id counter has wrapped, every valid
\* timer has a non-zero id, no other valid timer has that id, and the global
\* registry maps the id to the timer.
C18_ValidIdsUniqueAndRegistered ==
    \A s \in Slots :
        timer[s].is_valid =>
            /\ timer[s].id # 0
            /\ \A r \in Slots \ {s} : timer[r].is_valid => timer[r].id # timer[s].id
            /\ timers_by_id[timer[s].id] = s

C20_AccumulatorKeysAreTableKeys ==
    ~wrapped =>
        \A t \in Threads : \A id \in HashKeys(event_counts[t]) :
            /\ id \in HashKeys(tls_timers[t])
            /\ LET s == HashVal(tls_timers[t], id)
               IN s \in Slots /\ timer[s].id = id /\ timer[s].thread_mutex_ptr = t

\* destroy is inside its thread-local critical section, about to remove an
\* accumulator entry together with the table entry, while the accumulator
\* also holds the count of another timer.
C20_Witness ==
    \E t \in Threads :
        /\ pc[t] = "d_remove"
        /\ timer[cur[t]].id \in HashKeys(event_counts[t])
        /\ Len(event_counts[t]) = 2

====
